---- MODULE Spec2Model ----
(***************************************************************************)
(* A model of thumper (src/src/index.js): lazy combinators over JavaScript *)
(* iterables.  A combinator call is one action; one next() of a generator  *)
(* that a combinator returned is one action (it runs the generator body    *)
(* from its suspension point to its next yield or to its end).  The        *)
(* consumer that drives a returned generator is collect's spread: it calls *)
(* next() until the generator reports done and keeps what was yielded.     *)
(***************************************************************************)
EXTENDS Integers, Sequences, FiniteSets, TLC

\* ------------------------------------------------------------------ bounds
MaxLen == 3        \* longest upstream sequence
MaxVal == 2        \* element values are 1..MaxVal
MaxNum == 3        \* largest count given to take
MaxAdvance == 5    \* advances of the endless generator cycle returns
MaxArity == 3      \* largest declared arity of a curried function

Val == 1..MaxVal

\* the value of a missing array slot and of a finished iterator's result
Undefined == 0

ValU == Val \cup {Undefined}

RECURSIVE SeqsUpTo(_, _)
SeqsUpTo(S, n) ==
  IF n = 0 THEN {<<>>}
  ELSE LET shorter == SeqsUpTo(S, n - 1)
       IN  shorter \cup {Append(s, v) : s \in {t \in shorter : Len(t) = n - 1}, v \in S}

Min(a, b) == IF a < b THEN a ELSE b

\* ------------------------------------------------------------- JS values
\* A value handed to a combinator in a sequence position.  An "iterable" has
\* Symbol.iterator and is traversed through the iterator protocol: items is
\* what it will produce, pos how many elements have been pulled from it, and
\* closed whether a for...of left it early (return() on it).
Iterable(s) == [kind |-> "iterable", items |-> s, pos |-> 0, closed |-> FALSE]

NonIterable(k) == [kind |-> k, items |-> <<>>, pos |-> 0, closed |-> FALSE]

NoArg == NonIterable("absent")

\* values that do not answer the `in` query with true: primitives make it
\* throw the TypeError the catch recognises, a plain object answers false,
\* and a proxy whose has-trap throws makes it throw something else
Primitives == {"number", "string", "nullish"}
NonIterableKinds == Primitives \cup {"object", "trap"}

Sources == {Iterable(s) : s \in SeqsUpTo(Val, MaxLen)}

\* one step of the iterator protocol on an upstream iterable (the next() a
\* for...of or yield* makes)
Pull(it) ==
  IF it.closed \/ it.pos >= Len(it.items)
  THEN [done |-> TRUE, value |-> Undefined, it |-> it]
  ELSE [done |-> FALSE, value |-> it.items[it.pos + 1], it |-> [it EXCEPT !.pos = @ + 1]]

\* leaving a for...of early (break, return) calls return() on its iterator
Close(it) == [it EXCEPT !.closed = TRUE]

isIteratorNoCatch(possible) ==
  CASE possible.kind = "iterable" -> "true"
    [] possible.kind = "object" -> "false"
    [] OTHER -> "throws"

\* `Symbol.iterator in possible`, with the catch around it
isIterator(possible) ==
  CASE possible.kind = "iterable" -> "true"
    [] possible.kind = "object" -> "false"
    [] possible.kind \in Primitives -> "false"
    [] OTHER -> "throws"

ensureIteratorSkipped(value) == "ok"

\* "ok", or the error ensureIterator throws
ensureIterator(value) ==
  CASE isIterator(value) = "true" -> "ok"
    [] isIterator(value) = "false" -> "NotIterator"
    [] OTHER -> "Error"

\* ------------------------------------------------------------------ state
VARIABLES
  called,       \* the combinator that was applied ("none" before any call)
  iter1,        \* its first (or only) sequence argument
  iter2,        \* its second sequence argument (chain, zip, eq_by)
  cb,           \* its callback argument
  num,          \* its plain argument (num of take and skip, index of nth, start of scan and fold)
  count,        \* the counter a closure or a generator body keeps
  done,         \* skipWhile's done flag
  item,         \* cycle's collected array
  state,        \* scan's and fold's accumulator
  inner,        \* the iterable flatMap's yield* is delegating to
  ensuredIter,  \* state of the generator map(v => v, iter2) that zip holds
  pc,           \* where the returned generator is suspended ("none": no generator)
  out,          \* what the returned generator has yielded to its consumer
  ended,        \* how many advances of the returned generator reported done
  calls,        \* the user callback's invocations, each the tuple of its arguments
  result,       \* what the call returned or threw
  length,       \* curry: the wrapped function's declared arity (fn.length)
  args,         \* curry: the arguments the current wrapper has captured
  supplied,     \* curry: every argument the caller has passed so far, in call order
  invoked,      \* curry: the wrapped function's invocations, each its argument list
  made,         \* curry: the generators the completions of one partial application returned
  thrown        \* what an advance of the returned generator threw to its caller ("none" so far)

vars == <<called, iter1, iter2, cb, num, count, done, item, state, inner, ensuredIter, pc, out,
          ended, calls, result, length, args, supplied, invoked, made, thrown>>

curryVars == <<length, args, supplied, invoked, made>>

MaxEnded == 2      \* advances made after the generator has finished

NoCallback == [name |-> "none", table |-> <<>>]

NoResult == [type |-> "none", value |-> Undefined]
Generator == [type |-> "generator", value |-> Undefined]
NotIteratorNoCode ==
  [name |-> "NotIterator", code |-> Undefined, message |-> "Value is not an iterator"]

\* class NotIterator extends TypeError: its two field initialisers
NotIterator ==
  [name |-> "NotIterator", code |-> 1, message |-> "Value is not an iterator"]

\* what a has-trap throws: an error of the caller's, without a code
OtherError == [name |-> "Error", code |-> Undefined, message |-> "trap"]

\* a call that threw: the error's class, and the fields the caller can read
Threw(e) ==
  LET error == IF e = NotIterator.name THEN NotIterator ELSE OtherError
  IN  [type |-> "threw", value |-> e, code |-> error.code, message |-> error.message]
Boolean(b) == [type |-> "boolean", value |-> b]

Init ==
  /\ called = "none"
  /\ iter1 = NoArg
  /\ iter2 = NoArg
  /\ cb = NoCallback
  /\ num = 0
  /\ count = 0
  /\ done = FALSE
  /\ item = <<>>
  /\ state = Undefined
  /\ inner = NoArg
  /\ ensuredIter = "none"
  /\ pc = "none"
  /\ out = <<>>
  /\ ended = 0
  /\ calls = <<>>
  /\ result = NoResult
  /\ length = 0
  /\ args = <<>>
  /\ supplied = <<>>
  /\ invoked = <<>>
  /\ made = <<>>
  /\ thrown = "none"

\* no combinator has been applied yet
Idle == called = "none"

\* the consumer's side of one next(): keep a yielded value, or note the done
Consume(r) ==
  IF r.done
  THEN ended' = ended + 1 /\ out' = out
  ELSE ended' = ended /\ out' = Append(out, r.value)

\* a generator can be advanced while it exists; a finished one a few times more
CanAdvance(name) == called = name /\ pc # "none" /\ ended < MaxEnded

\* ------------------------------------------------------------------- map
mapStepPullsAhead(gpc, it) ==
  IF gpc = "done"
  THEN [done |-> TRUE, value |-> Undefined, pc |-> "done", it |-> it]
  ELSE LET p == Pull(it)
       IN  IF p.done
           THEN [done |-> TRUE, value |-> Undefined, pc |-> "done", it |-> p.it]
           ELSE [done |-> FALSE, value |-> p.value, pc |-> "yield", it |-> Pull(p.it).it]

\* one next() of the generator map returns, before fn is applied to the item:
\* gpc is "start", "yield" or "done"
mapStep(gpc, it) ==
  IF gpc = "done"
  THEN [done |-> TRUE, value |-> Undefined, pc |-> "done", it |-> it]
  ELSE LET p == Pull(it)
       IN  IF p.done
           THEN [done |-> TRUE, value |-> Undefined, pc |-> "done", it |-> p.it]
           ELSE [done |-> FALSE, value |-> p.value, pc |-> "yield", it |-> p.it]

\* ------------------------------------------------------------------- zip
\* the head of zip's for...of: the next item of iter1, yielded at "yield1"
zipLoop(ens, i1, i2) ==
  LET p == Pull(i1)
  IN  IF p.done
      THEN [done |-> TRUE, value |-> Undefined, pc |-> "done",
            ensuredIter |-> ens, iter1 |-> p.it, iter2 |-> i2]
      ELSE [done |-> FALSE, value |-> p.value, pc |-> "yield1",
            ensuredIter |-> ens, iter1 |-> p.it, iter2 |-> i2]

zipStepPaired(gpc, ens, i1, i2) ==
  CASE gpc = "done" ->
         [done |-> TRUE, value |-> Undefined, pc |-> "done",
          ensuredIter |-> ens, iter1 |-> i1, iter2 |-> i2]
    [] gpc \in {"start", "yield2"} -> zipLoop(ens, i1, i2)
    [] OTHER ->
         LET item2 == mapStep(ens, i2)
         IN  IF ~item2.done
             THEN [done |-> FALSE, value |-> item2.value, pc |-> "yield2",
                   ensuredIter |-> item2.pc, iter1 |-> i1, iter2 |-> item2.it]
             ELSE [done |-> TRUE, value |-> Undefined, pc |-> "done",
                   ensuredIter |-> item2.pc, iter1 |-> i1, iter2 |-> item2.it]

\* one next() of the generator zip returns
zipStep(gpc, ens, i1, i2) ==
  CASE gpc = "done" ->
         [done |-> TRUE, value |-> Undefined, pc |-> "done",
          ensuredIter |-> ens, iter1 |-> i1, iter2 |-> i2]
    [] gpc \in {"start", "yield2"} -> zipLoop(ens, i1, i2)
    [] OTHER ->
         LET item2 == mapStep(ens, i2)
         IN  IF ~item2.done
             THEN [done |-> FALSE, value |-> item2.value, pc |-> "yield2",
                   ensuredIter |-> item2.pc, iter1 |-> i1, iter2 |-> item2.it]
             ELSE zipLoop(item2.pc, i1, item2.it)

ZipEager(a, b) ==
  /\ called' = "zip"
  /\ iter1' = a
  /\ IF ensureIterator(a) # "ok"
     THEN result' = Threw(ensureIterator(a)) /\ iter2' = b /\ UNCHANGED <<pc, ensuredIter>>
     ELSE IF ensureIterator(b) # "ok"
     THEN result' = Threw(ensureIterator(b)) /\ iter2' = b /\ UNCHANGED <<pc, ensuredIter>>
     ELSE result' = Generator /\ iter2' = Pull(b).it /\ pc' = "start" /\ ensuredIter' = "start"
  /\ UNCHANGED <<cb, num, count, done, item, state, inner, out, ended, calls>>
  /\ UNCHANGED <<curryVars, thrown>>

\* zip(iter1, iter2): both guards, then map(v => v, iter2) and the generator
Zip(a, b) ==
  /\ called' = "zip"
  /\ iter1' = a
  /\ iter2' = b
  /\ IF ensureIterator(a) # "ok"
     THEN result' = Threw(ensureIterator(a)) /\ UNCHANGED <<pc, ensuredIter>>
     ELSE IF ensureIterator(b) # "ok"
     THEN result' = Threw(ensureIterator(b)) /\ UNCHANGED <<pc, ensuredIter>>
     ELSE result' = Generator /\ pc' = "start" /\ ensuredIter' = "start"
  /\ UNCHANGED <<cb, num, count, done, item, state, inner, out, ended, calls>>
  /\ UNCHANGED <<curryVars, thrown>>

ZipNext ==
  /\ CanAdvance("zip")
  /\ LET r == zipStep(pc, ensuredIter, iter1, iter2)
     IN  /\ pc' = r.pc
         /\ ensuredIter' = r.ensuredIter
         /\ iter1' = r.iter1
         /\ iter2' = r.iter2
         /\ Consume(r)
  /\ UNCHANGED <<called, cb, num, count, done, item, state, inner, calls, result>>
  /\ UNCHANGED <<curryVars, thrown>>

\* the values a caller may put in a sequence position
Arguments == Sources \cup {NonIterable(k) : k \in NonIterableKinds}

CallZip == Idle /\ \E a, b \in Arguments : Zip(a, b)

NextZip == CallZip \/ ZipNext

SpecZip == Init /\ [][NextZip]_vars

\* C1: collecting zip(seq1, seq2) gives the flat interleave a1, b1, a2, b2, ...
\* with a_i followed by b_i exactly when i <= n: what has been yielded is at
\* every point a prefix of it, a finished traversal has yielded all of its
\* m + min(m, n) elements, and no more than min(m, n) elements are ever pulled
\* from seq2.
RECURSIVE Interleave(_, _, _)
Interleave(a, b, i) ==
  IF i > Len(a) THEN <<>>
  ELSE <<a[i]>> \o (IF i <= Len(b) THEN <<b[i]>> ELSE <<>>) \o Interleave(a, b, i + 1)

IsPrefix(s, t) == Len(s) <= Len(t) /\ SubSeq(t, 1, Len(s)) = s

ZipFlatInterleave ==
  (called = "zip" /\ result.type = "generator") =>
    LET a == iter1.items
        b == iter2.items
    IN  /\ IsPrefix(out, Interleave(a, b, 1))
        /\ iter2.pos <= Min(Len(a), Len(b))
        /\ pc = "done" => /\ out = Interleave(a, b, 1)
                          /\ Len(out) = Len(a) + Min(Len(a), Len(b))

ZipLongerFirstWitness ==
  /\ called = "zip" /\ pc = "done"
  /\ Len(iter1.items) = 3 /\ Len(iter2.items) = 1
  /\ Len(out) = 4

\* ----------------------------------------------------------------- eq_by
\* the binary predicates given to eq_by, by what they answer
Predicates2 == {"always", "never", "same", "less"}

Holds2(name, a, b) ==
  CASE name = "always" -> TRUE
    [] name = "never" -> FALSE
    [] name = "same" -> a = b
    [] OTHER -> a < b /\ b # Undefined

\* eq_by's for...of over map(v => v, iter1), with iter2Iter.next() in its body:
\* g1 and g2 are the two map generators' states, log the calls of pred so far
RECURSIVE eqByLoopStrict(_, _, _, _, _, _)
eqByLoopStrict(pred, g1, i1, g2, i2, log) ==
  LET m1 == mapStep(g1, i1)
  IN  IF m1.done
      THEN [value |-> mapStep(g2, i2).done, iter1 |-> m1.it,
            iter2 |-> mapStep(g2, i2).it, calls |-> log]
      ELSE LET m2 == mapStep(g2, i2)
               log2 == Append(log, <<m1.value, m2.value>>)
           IN  IF ~Holds2(pred, m1.value, m2.value) \/ m2.done
               THEN [value |-> FALSE, iter1 |-> Close(m1.it), iter2 |-> m2.it,
                     calls |-> log2]
               ELSE eqByLoopStrict(pred, m1.pc, m1.it, m2.pc, m2.it, log2)

RECURSIVE eqByLoop(_, _, _, _, _, _)
eqByLoop(pred, g1, i1, g2, i2, log) ==
  LET m1 == mapStep(g1, i1)
  IN  IF m1.done
      THEN [value |-> TRUE, iter1 |-> m1.it, iter2 |-> i2, calls |-> log]
      ELSE LET m2 == mapStep(g2, i2)
               log2 == Append(log, <<m1.value, m2.value>>)
           IN  IF ~Holds2(pred, m1.value, m2.value) \/ m2.done
               THEN [value |-> FALSE, iter1 |-> Close(m1.it), iter2 |-> m2.it,
                     calls |-> log2]
               ELSE eqByLoop(pred, m1.pc, m1.it, m2.pc, m2.it, log2)

\* the body of eq_by, entered as eq_by itself or through eq
eqByCall(name, pred, a, b) ==
  /\ called' = name
  /\ cb' = [name |-> pred, table |-> <<>>]
  /\ IF ensureIterator(a) # "ok"
     THEN result' = Threw(ensureIterator(a)) /\ iter1' = a /\ iter2' = b /\ calls' = calls
     ELSE IF ensureIterator(b) # "ok"
     THEN result' = Threw(ensureIterator(b)) /\ iter1' = a /\ iter2' = b /\ calls' = calls
     ELSE LET r == eqByLoop(pred, "start", a, "start", b, <<>>)
          IN  /\ result' = Boolean(r.value)
              /\ iter1' = r.iter1
              /\ iter2' = r.iter2
              /\ calls' = r.calls
  /\ UNCHANGED <<num, count, done, item, state, inner, ensuredIter, pc, out, ended>>
  /\ UNCHANGED <<curryVars, thrown>>

\* eq_by(pred, iter1, iter2)
EqBy == Idle /\ \E pred \in Predicates2 : \E a, b \in Arguments : eqByCall("eq_by", pred, a, b)

\* eq(iter1, iter2) is eq_by((a, b) => a === b) completed with its sequences
Eq == Idle /\ \E a, b \in Arguments : eqByCall("eq", "same", a, b)

NextEq == EqBy \/ Eq

SpecEq == Init /\ [][NextEq]_vars

\* C2: eq_by(pred, seq1, seq2) is true exactly when seq1 is no longer than
\* seq2 and pred holds of every pair (seq1[i], seq2[i]), i <= length(seq1).
EqByPrefixEquality ==
  (called \in {"eq_by", "eq"} /\ result.type = "boolean") =>
    LET a == iter1.items
        b == iter2.items
    IN  result.value <=>
          /\ Len(a) <= Len(b)
          /\ \A i \in 1..Len(a) : Holds2(cb.name, a[i], b[i])

EqByLongerSecondWitness ==
  /\ called = "eq_by" /\ result.type = "boolean" /\ result.value
  /\ cb.name = "same"
  /\ Len(iter1.items) = 2 /\ Len(iter2.items) = 3

\* ------------------------------------------------------- takeWhile, take
\* a predicate a caller passes, by what it answers at each of its calls (the
\* k-th call answers table[k]): a pure predicate and one that keeps state of
\* its own are both such tables
Tables == [1..MaxLen -> BOOLEAN]

Table(t) == [name |-> "table", table |-> t]

takePredOffByOne(cnt, n) == [count |-> cnt + 1, truthy |-> cnt + 1 < n]

\* the closure take builds: count++, then count < num + 1
takePred(cnt, n) == [count |-> cnt + 1, truthy |-> cnt + 1 < n + 1]

skipPredOffByOne(cnt, n) == [count |-> cnt + 1, truthy |-> cnt + 1 < n]

\* the closure skip builds: count++, then count <= num
skipPred(cnt, n) == [count |-> cnt + 1, truthy |-> cnt + 1 <= n]

\* pred(item) as takeWhile and skipWhile make it: the answer, the closure's
\* counter after it and the log of the caller's callback after it
callPred(c, cnt, n, log, v) ==
  CASE c.name = "take" ->
         [truthy |-> takePred(cnt, n).truthy, count |-> takePred(cnt, n).count,
          calls |-> log]
    [] c.name = "skip" ->
         [truthy |-> skipPred(cnt, n).truthy, count |-> skipPred(cnt, n).count,
          calls |-> log]
    [] OTHER ->
         [truthy |-> c.table[Len(log) + 1], count |-> cnt,
          calls |-> Append(log, <<v>>)]

takeWhileStepResumes(c, cnt, n, log, gpc, it) ==
  IF gpc = "done"
  THEN [done |-> TRUE, value |-> Undefined, pc |-> "done", it |-> it,
        count |-> cnt, calls |-> log]
  ELSE LET p == Pull(it)
       IN  IF p.done
           THEN [done |-> TRUE, value |-> Undefined, pc |-> "done", it |-> p.it,
                 count |-> cnt, calls |-> log]
           ELSE LET q == callPred(c, cnt, n, log, p.value)
                IN  IF q.truthy
                    THEN [done |-> FALSE, value |-> p.value, pc |-> "yield",
                          it |-> p.it, count |-> q.count, calls |-> q.calls]
                    ELSE [done |-> TRUE, value |-> Undefined, pc |-> "yield",
                          it |-> p.it, count |-> q.count, calls |-> q.calls]

\* one next() of the generator takeWhile returns
takeWhileStep(c, cnt, n, log, gpc, it) ==
  IF gpc = "done"
  THEN [done |-> TRUE, value |-> Undefined, pc |-> "done", it |-> it,
        count |-> cnt, calls |-> log]
  ELSE LET p == Pull(it)
       IN  IF p.done
           THEN [done |-> TRUE, value |-> Undefined, pc |-> "done", it |-> p.it,
                 count |-> cnt, calls |-> log]
           ELSE LET q == callPred(c, cnt, n, log, p.value)
                IN  IF q.truthy
                    THEN [done |-> FALSE, value |-> p.value, pc |-> "yield",
                          it |-> p.it, count |-> q.count, calls |-> q.calls]
                    ELSE [done |-> TRUE, value |-> Undefined, pc |-> "done",
                          it |-> Close(p.it), count |-> q.count, calls |-> q.calls]

\* the body of takeWhile, entered as takeWhile itself or from take
takeWhileCall(name, c, n, a) ==
  /\ called' = name
  /\ cb' = c
  /\ num' = n
  /\ iter1' = a
  /\ IF ensureIterator(a) # "ok"
     THEN result' = Threw(ensureIterator(a)) /\ pc' = pc
     ELSE result' = Generator /\ pc' = "start"
  /\ UNCHANGED <<iter2, count, done, item, state, inner, ensuredIter, out, ended, calls>>
  /\ UNCHANGED <<curryVars, thrown>>

\* takeWhile(pred, iter)
TakeWhile == Idle /\ \E t \in Tables : \E a \in Arguments : takeWhileCall("takeWhile", Table(t), 0, a)

\* take(num, iter): count = 0, the closure, then takeWhile(pred, iter)
Take ==
  Idle /\ \E n \in 0..MaxNum : \E a \in Arguments :
    takeWhileCall("take", [name |-> "take", table |-> <<>>], n, a)

TakeWhileNext ==
  /\ CanAdvance("take") \/ CanAdvance("takeWhile")
  /\ LET r == takeWhileStep(cb, count, num, calls, pc, iter1)
     IN  /\ pc' = r.pc
         /\ iter1' = r.it
         /\ count' = r.count
         /\ calls' = r.calls
         /\ Consume(r)
  /\ UNCHANGED <<called, iter2, cb, num, done, item, state, inner, ensuredIter, result>>
  /\ UNCHANGED <<curryVars, thrown>>

NextTake == Take \/ TakeWhile \/ TakeWhileNext

SpecTake == Init /\ [][NextTake]_vars

\* C3: a traversal of take(n, s), s longer than n, never pulls more than n
\* elements from s.
TakePullsAtMostN ==
  (called = "take" /\ result.type = "generator" /\ Len(iter1.items) > num) =>
    iter1.pos <= num

\* C6: collecting take(n, s) gives the first min(n, length(s)) elements of s
\* in order: what has been yielded is at every point a prefix of them, and a
\* finished traversal has yielded them all.
TakeFirstN ==
  (called = "take" /\ result.type = "generator") =>
    LET first == SubSeq(iter1.items, 1, Min(num, Len(iter1.items)))
    IN  /\ IsPrefix(out, first)
        /\ pc = "done" => out = first

TakeShortWitness ==
  /\ called = "take" /\ pc = "done"
  /\ num = 3 /\ Len(iter1.items) = 2 /\ Len(out) = 2

TakeLongWitness ==
  /\ called = "take" /\ pc = "done"
  /\ num = 2 /\ Len(iter1.items) = 3 /\ Len(out) = 2

\* -------------------------------------------------- collect, count, cycle
Array(a) == [type |-> "array", value |-> a]
Number(n) == [type |-> "number", value |-> n]

\* [...iter]: next() on iter until it reports done
RECURSIVE spread(_, _)
spread(it, acc) ==
  LET p == Pull(it)
  IN  IF p.done THEN [value |-> acc, it |-> p.it]
      ELSE spread(p.it, Append(acc, p.value))

\* collect(iter)
Collect(a) ==
  /\ called' = "collect"
  /\ IF ensureIterator(a) # "ok"
     THEN result' = Threw(ensureIterator(a)) /\ iter1' = a
     ELSE result' = Array(spread(a, <<>>).value) /\ iter1' = spread(a, <<>>).it
  /\ UNCHANGED <<iter2, cb, num, count, done, item, state, inner, ensuredIter, pc, out, ended, calls>>
  /\ UNCHANGED <<curryVars, thrown>>

CallCollect == Idle /\ \E a \in Arguments : Collect(a)

\* count(iter): i++ for every item of the for...of
Count(a) ==
  /\ called' = "count"
  /\ IF ensureIterator(a) # "ok"
     THEN result' = Threw(ensureIterator(a)) /\ iter1' = a
     ELSE result' = Number(Len(spread(a, <<>>).value)) /\ iter1' = spread(a, <<>>).it
  /\ UNCHANGED <<iter2, cb, num, count, done, item, state, inner, ensuredIter, pc, out, ended, calls>>
  /\ UNCHANGED <<curryVars, thrown>>

CallCount == Idle /\ \E a \in Arguments : Count(a)

\* item[i] of a JavaScript array: undefined outside it
At(arr, i) == IF i >= 0 /\ i < Len(arr) THEN arr[i + 1] ELSE Undefined

cycleStepNoReset(gpc, i, arr) ==
  LET j == IF gpc = "start" THEN 0 ELSE i + 1
  IN  [done |-> FALSE, value |-> At(arr, j), pc |-> "yield", count |-> j]

\* one next() of the generator cycle returns: i++ after the last yield, the
\* reset of i, and the next yield
cycleStep(gpc, i, arr) ==
  LET j == IF gpc = "start" THEN 0 ELSE i + 1
      k == IF j > Len(arr) - 1 THEN 0 ELSE j
  IN  [done |-> FALSE, value |-> At(arr, k), pc |-> "yield", count |-> k]

\* cycle(iter): collect(iter) at the call, then the generator
Cycle(a) ==
  /\ called' = "cycle"
  /\ IF ensureIterator(a) # "ok"
     THEN result' = Threw(ensureIterator(a)) /\ iter1' = a /\ UNCHANGED <<item, pc>>
     ELSE /\ result' = Generator
          /\ item' = spread(a, <<>>).value
          /\ iter1' = spread(a, <<>>).it
          /\ pc' = "start"
  /\ UNCHANGED <<iter2, cb, num, count, done, state, inner, ensuredIter, out, ended, calls>>
  /\ UNCHANGED <<curryVars, thrown>>

CallCycle == Idle /\ \E a \in Arguments : Cycle(a)

CycleNext ==
  /\ CanAdvance("cycle")
  /\ Len(out) < MaxAdvance
  /\ LET r == cycleStep(pc, count, item)
     IN  /\ pc' = r.pc
         /\ count' = r.count
         /\ Consume(r)
  /\ UNCHANGED <<called, iter1, iter2, cb, num, done, item, state, inner, ensuredIter, calls, result>>
  /\ UNCHANGED <<curryVars, thrown>>

NextCycle == CallCycle \/ CycleNext \/ CallCollect \/ CallCount

SpecCycle == Init /\ [][NextCycle]_vars

\* C4: cycle of an empty sequence does not fail and yields no element.
CycleEmptyYieldsNothing ==
  (called = "cycle" /\ isIterator(iter1) = "true" /\ Len(iter1.items) = 0) =>
    /\ result.type = "generator"
    /\ out = <<>>

\* C7: for a non-empty s of length L, cycle(s) never reports done, its k-th
\* element (from 0) is s[k mod L], and s is pulled to its end at the call and
\* not again.
CycleRepeats ==
  (called = "cycle" /\ result.type = "generator" /\ Len(iter1.items) > 0) =>
    LET L == Len(iter1.items)
    IN  /\ ended = 0
        /\ pc # "done"
        /\ iter1.pos = L
        /\ \A k \in 0..(Len(out) - 1) : out[k + 1] = iter1.items[(k % L) + 1]

CycleWrapsWitness ==
  /\ called = "cycle" /\ result.type = "generator"
  /\ Len(iter1.items) = 2 /\ Len(out) = 5

\* ------------------------------------------------------- skipWhile, skip
RECURSIVE skipWhileStepNoFlag(_, _, _, _, _, _, _)
skipWhileStepNoFlag(c, cnt, n, log, d, gpc, it) ==
  IF gpc = "done"
  THEN [done |-> TRUE, value |-> Undefined, pc |-> "done", it |-> it,
        count |-> cnt, calls |-> log, flag |-> d]
  ELSE LET p == Pull(it)
       IN  IF p.done
           THEN [done |-> TRUE, value |-> Undefined, pc |-> "done", it |-> p.it,
                 count |-> cnt, calls |-> log, flag |-> d]
           ELSE LET q == callPred(c, cnt, n, log, p.value)
                IN  IF q.truthy
                    THEN skipWhileStepNoFlag(c, q.count, n, q.calls, d, "yield", p.it)
                    ELSE [done |-> FALSE, value |-> p.value, pc |-> "yield",
                          it |-> p.it, count |-> q.count, calls |-> q.calls,
                          flag |-> TRUE]

\* one next() of the generator skipWhile returns: d is its done flag
RECURSIVE skipWhileStep(_, _, _, _, _, _, _)
skipWhileStep(c, cnt, n, log, d, gpc, it) ==
  IF gpc = "done"
  THEN [done |-> TRUE, value |-> Undefined, pc |-> "done", it |-> it,
        count |-> cnt, calls |-> log, flag |-> d]
  ELSE LET p == Pull(it)
       IN  IF p.done
           THEN [done |-> TRUE, value |-> Undefined, pc |-> "done", it |-> p.it,
                 count |-> cnt, calls |-> log, flag |-> d]
           ELSE LET q == callPred(c, cnt, n, log, p.value)
                IN  IF ~d /\ q.truthy
                    THEN skipWhileStep(c, q.count, n, q.calls, d, "yield", p.it)
                    ELSE [done |-> FALSE, value |-> p.value, pc |-> "yield",
                          it |-> p.it, count |-> q.count, calls |-> q.calls,
                          flag |-> IF ~q.truthy THEN TRUE ELSE d]

\* the body of skipWhile, entered as skipWhile itself or from skip
skipWhileCall(name, c, n, a) ==
  /\ called' = name
  /\ cb' = c
  /\ num' = n
  /\ iter1' = a
  /\ IF ensureIterator(a) # "ok"
     THEN result' = Threw(ensureIterator(a)) /\ pc' = pc
     ELSE result' = Generator /\ pc' = "start"
  /\ UNCHANGED <<iter2, count, done, item, state, inner, ensuredIter, out, ended, calls>>
  /\ UNCHANGED <<curryVars, thrown>>

\* skipWhile(pred, iter)
SkipWhile == Idle /\ \E t \in Tables : \E a \in Arguments : skipWhileCall("skipWhile", Table(t), 0, a)

\* skip(num, iter): count = 0, the closure, then skipWhile(pred, iter)
Skip ==
  Idle /\ \E n \in 0..MaxNum : \E a \in Arguments :
    skipWhileCall("skip", [name |-> "skip", table |-> <<>>], n, a)

SkipWhileNext ==
  /\ CanAdvance("skip") \/ CanAdvance("skipWhile")
  /\ LET r == skipWhileStep(cb, count, num, calls, done, pc, iter1)
     IN  /\ pc' = r.pc
         /\ iter1' = r.it
         /\ count' = r.count
         /\ calls' = r.calls
         /\ done' = r.flag
         /\ Consume(r)
  /\ UNCHANGED <<called, iter2, cb, num, item, state, inner, ensuredIter, result>>
  /\ UNCHANGED <<curryVars, thrown>>

NextSkip == Skip \/ SkipWhile \/ SkipWhileNext

SpecSkip == Init /\ [][NextSkip]_vars

\* C8: skipWhile(pred, s) yields exactly the suffix of s that starts at the
\* first element for which pred answers falsy (that element included, the
\* later ones whatever pred answers for them), and nothing when pred answers
\* truthy for every element.
FirstFalsy(t, L) ==
  IF \E k \in 1..L : ~t[k]
  THEN CHOOSE k \in 1..L : ~t[k] /\ \A j \in 1..(k - 1) : t[j]
  ELSE L + 1

SkipWhileYieldsSuffix ==
  (called = "skipWhile" /\ result.type = "generator") =>
    LET s == iter1.items
        suffix == SubSeq(s, FirstFalsy(cb.table, Len(s)), Len(s))
    IN  /\ IsPrefix(out, suffix)
        /\ pc = "done" => out = suffix

SkipWhileLaterTruthyWitness ==
  /\ called = "skipWhile" /\ pc = "done"
  /\ Len(iter1.items) = 3
  /\ cb.table[1] /\ ~cb.table[2] /\ cb.table[3]
  /\ Len(out) = 2

\* C18: skip(n, s) yields s without its first n elements, so
\* max(0, length(s) - n) elements.
SkipDropsFirstN ==
  (called = "skip" /\ result.type = "generator") =>
    LET s == iter1.items
        rest == SubSeq(s, num + 1, Len(s))
    IN  /\ IsPrefix(out, rest)
        /\ (pc = "done") =>
              /\ out = rest
              /\ Len(out) = IF Len(s) > num THEN Len(s) - num ELSE 0

SkipSomeWitness ==
  /\ called = "skip" /\ pc = "done"
  /\ num = 1 /\ iter1.items = <<1, 2, 1>>
  /\ out = <<2, 1>>

SkipAllWitness ==
  /\ called = "skip" /\ pc = "done"
  /\ num = 3 /\ iter1.items = <<1, 2>>
  /\ out = <<>>

\* -------------------------------------------------------------- all, some
RECURSIVE allLoopExhaustive(_, _, _)
allLoopExhaustive(c, it, log) ==
  LET p == Pull(it)
  IN  IF p.done
      THEN [value |-> \A k \in 1..Len(log) : c.table[k], it |-> p.it, calls |-> log]
      ELSE allLoopExhaustive(c, p.it, Append(log, <<p.value>>))

\* all's for...of
RECURSIVE allLoop(_, _, _)
allLoop(c, it, log) ==
  LET p == Pull(it)
  IN  IF p.done THEN [value |-> TRUE, it |-> p.it, calls |-> log]
      ELSE IF ~c.table[Len(log) + 1]
      THEN [value |-> FALSE, it |-> Close(p.it), calls |-> Append(log, <<p.value>>)]
      ELSE allLoop(c, p.it, Append(log, <<p.value>>))

\* some's for...of
RECURSIVE someLoop(_, _, _)
someLoop(c, it, log) ==
  LET p == Pull(it)
  IN  IF p.done THEN [value |-> FALSE, it |-> p.it, calls |-> log]
      ELSE IF c.table[Len(log) + 1]
      THEN [value |-> TRUE, it |-> Close(p.it), calls |-> Append(log, <<p.value>>)]
      ELSE someLoop(c, p.it, Append(log, <<p.value>>))

\* all(pred, iterator)
All(c, a) ==
  /\ called' = "all"
  /\ cb' = c
  /\ IF ensureIterator(a) # "ok"
     THEN result' = Threw(ensureIterator(a)) /\ iter1' = a /\ calls' = calls
     ELSE LET r == allLoop(c, a, <<>>)
          IN  result' = Boolean(r.value) /\ iter1' = r.it /\ calls' = r.calls
  /\ UNCHANGED <<iter2, num, count, done, item, state, inner, ensuredIter, pc, out, ended>>
  /\ UNCHANGED <<curryVars, thrown>>

CallAll == Idle /\ \E t \in Tables : \E a \in Arguments : All(Table(t), a)

\* some(pred, iterator)
Some(c, a) ==
  /\ called' = "some"
  /\ cb' = c
  /\ IF ensureIterator(a) # "ok"
     THEN result' = Threw(ensureIterator(a)) /\ iter1' = a /\ calls' = calls
     ELSE LET r == someLoop(c, a, <<>>)
          IN  result' = Boolean(r.value) /\ iter1' = r.it /\ calls' = r.calls
  /\ UNCHANGED <<iter2, num, count, done, item, state, inner, ensuredIter, pc, out, ended>>
  /\ UNCHANGED <<curryVars, thrown>>

CallSome == Idle /\ \E t \in Tables : \E a \in Arguments : Some(Table(t), a)

NextAllSome == CallAll \/ CallSome

SpecAllSome == Init /\ [][NextAllSome]_vars

\* C9: all and some stop at the first deciding element (the first that fails
\* pred for all, the first that satisfies it for some): when it is at position
\* k (from 0), pred was invoked k+1 times, on the first k+1 elements in order,
\* k+1 elements were pulled, and the result is false for all, true for some;
\* when no element decides, pred was invoked once on every element and the
\* result is true for all, false for some.
FirstDeciding(t, L, want) ==
  IF \E k \in 1..L : t[k] = want
  THEN CHOOSE k \in 1..L : t[k] = want /\ \A j \in 1..(k - 1) : t[j] # want
  ELSE 0

AllSomeStopEarly ==
  (called \in {"all", "some"} /\ result.type = "boolean") =>
    LET s == iter1.items
        want == (called = "some")
        k == FirstDeciding(cb.table, Len(s), want)
        tested == IF k = 0 THEN Len(s) ELSE k
    IN  /\ Len(calls) = tested
        /\ \A i \in 1..tested : calls[i] = <<s[i]>>
        /\ iter1.pos = tested
        /\ result.value = IF k = 0 THEN ~want ELSE want

AllStopsEarlyWitness ==
  /\ called = "all" /\ result.type = "boolean" /\ ~result.value
  /\ Len(iter1.items) = 3 /\ Len(calls) = 2

\* ------------------------------------------------------------------ curry
Function == [type |-> "function", value |-> Undefined]

\* what the wrapped function returns: it is left uninterpreted, its result
\* stands for "fn applied to these arguments"
Returned(a) == [type |-> "returned", value |-> a]

curryArgsReversed(held, other) == other \o held

\* (...args, ...other)
curryArgs(held, other) == held \o other

\* curry(fn) for a function of declared arity n: the first wrapper holds nothing
Curry(n) ==
  /\ called' = "curry"
  /\ length' = n
  /\ args' = <<>>
  /\ result' = Function
  /\ UNCHANGED <<iter1, iter2, cb, num, count, done, item, state, inner, ensuredIter, pc, out,
                 ended, calls, supplied, invoked, made, thrown>>

CallCurry == Idle /\ \E n \in 0..MaxArity : Curry(n)

\* the wrapper last returned is called with the arguments other
CurryApply(other) ==
  /\ called = "curry"
  /\ result.type = "function"
  /\ Len(supplied) <= MaxArity
  /\ supplied' = Append(supplied, other)
  /\ LET all == curryArgs(args, other)
     IN  IF Len(all) >= length
         THEN /\ invoked' = Append(invoked, all)
              /\ result' = Returned(all)
              /\ args' = args
         ELSE /\ result' = Function
              /\ args' = all
              /\ invoked' = invoked
  /\ UNCHANGED <<called, iter1, iter2, cb, num, count, done, item, state, inner, ensuredIter, pc,
                 out, ended, calls, length, made, thrown>>

CallWrapper == \E other \in SeqsUpTo(Val, length + 1 - Len(args)) : CurryApply(other)

NextCurry == CallCurry \/ CallWrapper

SpecCurry == Init /\ [][NextCurry]_vars

\* C10: supplying the arguments of a curried function of arity n through any
\* sequence of calls gives what one call with all of them gives: while fewer
\* than n have accumulated every call returned a new callable and the target
\* was not invoked, and the call that brought the total to n or more invoked
\* the target once, with all the arguments in call order, and returned its
\* result.
RECURSIVE Flat(_)
Flat(ss) == IF ss = <<>> THEN <<>> ELSE Head(ss) \o Flat(Tail(ss))

Front(ss) == SubSeq(ss, 1, Len(ss) - 1)

CurryAccumulates ==
  (called = "curry") =>
    LET all == Flat(supplied)
    IN  /\ (supplied = <<>> \/ Len(all) < length) =>
              invoked = <<>> /\ result.type = "function"
        /\ (supplied # <<>> /\ Len(all) >= length) =>
              /\ invoked = <<all>>
              /\ result.type = "returned" /\ result.value = all
              /\ (Len(supplied) > 1 => Len(Flat(Front(supplied))) < length)

CurryOneByOneWitness ==
  /\ called = "curry" /\ length = 3
  /\ Len(supplied) = 4
  /\ \A i \in 1..4 : Len(supplied[i]) <= 1
  /\ invoked = <<Flat(supplied)>>
  /\ Flat(supplied) = <<1, 2, 1>>

\* ------------------------------------------- take(n) and skip(n), partial
MaxMade == 2       \* completions of one partial application
MaxPartialLen == 2 \* longest input a completion is given

\* the inputs the completions are given: b, b + 1, ... (wrapping in Val), k long
Run(b, k) == [j \in 1..k |-> ((b + j - 2) % MaxVal) + 1]

PartialSources == {Iterable(Run(b, k)) : b \in Val, k \in 0..MaxPartialLen}

closureCountShared(ms, i) == ms[1].count

\* the count of the i-th completion: `let count = 0` runs once per invocation
\* of the curried body, so every returned generator closes over its own
closureCount(ms, i) == ms[i].count

\* take(n) or skip(n): curry's wrapper gets one argument of the two the body
\* declares and returns the wrapper that holds it
Partial(name, n) ==
  /\ called' = "partial"
  /\ cb' = [name |-> name, table |-> <<>>]
  /\ length' = 2
  /\ args' = curryArgs(<<>>, <<n>>)
  /\ result' = Function
  /\ UNCHANGED <<iter1, iter2, num, count, done, item, state, inner, ensuredIter, pc, out,
                 ended, calls, supplied, invoked, made, thrown>>

TakePartial == Idle /\ \E n \in 0..MaxNum : Partial("take", n)

SkipPartial == Idle /\ \E n \in 0..MaxNum : Partial("skip", n)

\* the wrapper that holds n is called with a sequence: the arguments are now
\* as many as the body declares, so the body runs (count = 0, the closure, the
\* guard, return it()); the wrapper still holds n alone
Complete ==
  /\ called = "partial"
  /\ Len(made) < MaxMade
  /\ \E a \in PartialSources :
       LET all == curryArgs(args, <<a>>)
       IN  /\ Len(all) >= length
           /\ ensureIterator(all[2]) = "ok"
           /\ made' = Append(made, [num |-> all[1], iter |-> all[2], count |-> 0,
                                    done |-> FALSE, pc |-> "start", out |-> <<>>])
  /\ UNCHANGED <<called, iter1, iter2, cb, num, count, done, item, state, inner, ensuredIter,
                 pc, out, ended, calls, result, length, args, supplied, invoked, thrown>>

\* one next() of the i-th generator made, until it has reported done
PartialNext(i) ==
  /\ called = "partial"
  /\ made[i].pc # "done"
  /\ LET m == made[i]
         r == IF cb.name = "take"
              THEN takeWhileStep(cb, closureCount(made, i), m.num, <<>>, m.pc, m.iter)
                     @@ [flag |-> m.done]
              ELSE skipWhileStep(cb, closureCount(made, i), m.num, <<>>, m.done, m.pc, m.iter)
     IN  made' = [made EXCEPT ![i] =
                    [num |-> m.num, iter |-> r.it, count |-> r.count, done |-> r.flag,
                     pc |-> r.pc, out |-> IF r.done THEN m.out ELSE Append(m.out, r.value)]]
  /\ UNCHANGED <<called, iter1, iter2, cb, num, count, done, item, state, inner, ensuredIter,
                 pc, out, ended, calls, result, length, args, supplied, invoked, thrown>>

AdvanceMade == \E i \in 1..Len(made) : PartialNext(i)

NextPartial == TakePartial \/ SkipPartial \/ Complete \/ AdvanceMade

SpecPartial == Init /\ [][NextPartial]_vars

\* C11: the generators two completions of one take(n) (or skip(n)) return,
\* advanced in any interleaving, each yield the first n elements of their own
\* input (each drop the first n of their own input) whatever the other has
\* done, and the partial application still holds n alone.
PartialExpected(name, n, s) ==
  IF name = "take" THEN SubSeq(s, 1, Min(n, Len(s))) ELSE SubSeq(s, n + 1, Len(s))

PartialsIndependent ==
  (called = "partial") =>
    /\ Len(args) = 1 /\ result.type = "function"
    /\ \A i \in 1..Len(made) :
         LET m == made[i]
             expected == PartialExpected(cb.name, args[1], m.iter.items)
         IN  /\ IsPrefix(m.out, expected)
             /\ (m.pc = "done") => (m.out = expected)

PartialsBothDoneWitness ==
  /\ called = "partial" /\ cb.name = "take" /\ Len(made) = 2
  /\ made[1].pc = "done" /\ made[2].pc = "done"
  /\ made[1].iter.items # made[2].iter.items
  /\ made[1].out # <<>> /\ made[2].out # <<>>
  /\ made[1].out # made[2].out
  /\ Len(made[1].iter.items) > args[1]

\* ------------------------------- map, filter, filter_map, tap, enumerate
\* a function a caller passes, by what it returns at each of its calls (the
\* k-th call returns table[k]); 0 is a falsy result
Results == 0..MaxVal
ResultTables == [1..MaxLen -> Results]

\* what predMap may return: the falsy values that are not undefined or the
\* number 0 (which 0 stands for) are encoded below it
EmptyString == Undefined - 1
False == Undefined - 2
Falsy == {Undefined, EmptyString, False}

PredMapResults == Falsy \cup Val
PredMapTables == [1..MaxLen -> PredMapResults]

\* if (result)
Truthy(v) == v \notin Falsy

\* a combinator of one callback (or none) and one sequence that returns a
\* generator: the guard, then return it()
lazyCall(name, c, a) ==
  /\ called' = name
  /\ cb' = c
  /\ iter1' = a
  /\ IF ensureIterator(a) # "ok"
     THEN result' = Threw(ensureIterator(a)) /\ pc' = pc
     ELSE result' = Generator /\ pc' = "start"
  /\ UNCHANGED <<iter2, num, count, done, item, state, inner, ensuredIter, out, ended, calls>>
  /\ UNCHANGED <<curryVars, thrown>>

\* map(fn, iter)
Map == Idle /\ \E t \in ResultTables : \E a \in Arguments : lazyCall("map", Table(t), a)

\* one next() of map's generator: the item, then yield fn(item)
MapNext ==
  /\ CanAdvance("map")
  /\ LET m == mapStep(pc, iter1)
     IN  /\ pc' = m.pc
         /\ iter1' = m.it
         /\ calls' = IF m.done THEN calls ELSE Append(calls, <<m.value>>)
         /\ Consume([done |-> m.done,
                     value |-> IF m.done THEN Undefined ELSE cb.table[Len(calls) + 1]])
  /\ UNCHANGED <<called, iter2, cb, num, count, done, item, state, inner, ensuredIter, result>>
  /\ UNCHANGED <<curryVars, thrown>>

RECURSIVE filterStepYieldsItem(_, _, _, _, _)
filterStepYieldsItem(mapped, c, log, gpc, it) ==
  IF gpc = "done"
  THEN [done |-> TRUE, value |-> Undefined, pc |-> "done", it |-> it, calls |-> log]
  ELSE LET p == Pull(it)
       IN  IF p.done
           THEN [done |-> TRUE, value |-> Undefined, pc |-> "done", it |-> p.it,
                 calls |-> log]
           ELSE LET res == c.table[Len(log) + 1]
                    log2 == Append(log, <<p.value>>)
                    passed == IF mapped THEN Truthy(res) ELSE res
                IN  IF passed
                    THEN [done |-> FALSE, value |-> p.value,
                          pc |-> "yield", it |-> p.it, calls |-> log2]
                    ELSE filterStepYieldsItem(mapped, c, log2, "yield", p.it)

\* one next() of filter's generator (mapped = FALSE: yield item when pred(item))
\* and of filter_map's (mapped = TRUE: yield result when result)
RECURSIVE filterStep(_, _, _, _, _)
filterStep(mapped, c, log, gpc, it) ==
  IF gpc = "done"
  THEN [done |-> TRUE, value |-> Undefined, pc |-> "done", it |-> it, calls |-> log]
  ELSE LET p == Pull(it)
       IN  IF p.done
           THEN [done |-> TRUE, value |-> Undefined, pc |-> "done", it |-> p.it,
                 calls |-> log]
           ELSE LET res == c.table[Len(log) + 1]
                    log2 == Append(log, <<p.value>>)
                    passed == IF mapped THEN Truthy(res) ELSE res
                IN  IF passed
                    THEN [done |-> FALSE, value |-> IF mapped THEN res ELSE p.value,
                          pc |-> "yield", it |-> p.it, calls |-> log2]
                    ELSE filterStep(mapped, c, log2, "yield", p.it)

\* filter(pred, iterator)
Filter == Idle /\ \E t \in Tables : \E a \in Arguments : lazyCall("filter", Table(t), a)

\* filter_map(predMap, iterator)
FilterMap == Idle /\ \E t \in PredMapTables : \E a \in Arguments : lazyCall("filter_map", Table(t), a)

FilterNext ==
  /\ CanAdvance("filter") \/ CanAdvance("filter_map")
  /\ LET r == filterStep(called = "filter_map", cb, calls, pc, iter1)
     IN  /\ pc' = r.pc
         /\ iter1' = r.it
         /\ calls' = r.calls
         /\ Consume(r)
  /\ UNCHANGED <<called, iter2, cb, num, count, done, item, state, inner, ensuredIter, result>>
  /\ UNCHANGED <<curryVars, thrown>>

\* tap(fn, iter): fn's result is not used, so fn is given by its calls alone
Tap == Idle /\ \E a \in Arguments : lazyCall("tap", [name |-> "effect", table |-> <<>>], a)

\* one next() of tap's generator: fn(item), then yield item
TapNext ==
  /\ CanAdvance("tap")
  /\ LET m == mapStep(pc, iter1)
     IN  /\ pc' = m.pc
         /\ iter1' = m.it
         /\ calls' = IF m.done THEN calls ELSE Append(calls, <<m.value>>)
         /\ Consume(m)
  /\ UNCHANGED <<called, iter2, cb, num, count, done, item, state, inner, ensuredIter, result>>
  /\ UNCHANGED <<curryVars, thrown>>

\* enumerate(iter)
Enumerate == Idle /\ \E a \in Arguments : lazyCall("enumerate", NoCallback, a)

\* one next() of enumerate's generator: i++ after the last yield, then
\* yield [item, i]
EnumerateNext ==
  /\ CanAdvance("enumerate")
  /\ LET m == mapStep(pc, iter1)
         i == IF pc = "start" THEN 0 ELSE count + 1
     IN  /\ pc' = m.pc
         /\ iter1' = m.it
         /\ count' = IF pc = "done" THEN count ELSE i
         /\ Consume([done |-> m.done, value |-> <<m.value, i>>])
  /\ UNCHANGED <<called, iter2, cb, num, done, item, state, inner, ensuredIter, calls, result>>
  /\ UNCHANGED <<curryVars, thrown>>

NextMap == Map \/ MapNext \/ Filter \/ FilterMap \/ FilterNext \/ Tap \/ TapNext
           \/ Enumerate \/ EnumerateNext

SpecMap == Init /\ [][NextMap]_vars

\* C16: map(f, s) yields as many elements as s has, the i-th being what f
\* returned for s[i]: f is invoked once per element, in order, with that
\* element, and every advance that yields has pulled exactly one element of s.
MapOneToOne ==
  (called = "map" /\ result.type = "generator") =>
    /\ Len(calls) = Len(out)
    /\ iter1.pos = Len(out)
    /\ \A i \in 1..Len(out) : calls[i] = <<iter1.items[i]>> /\ out[i] = cb.table[i]
    /\ (pc = "done") => (Len(out) = Len(iter1.items))

MapCollectedWitness ==
  /\ called = "map" /\ pc = "done"
  /\ iter1.items = <<2, 1>>
  /\ cb.table[1] = 1 /\ cb.table[2] = 2
  /\ out = <<1, 2>>
  /\ calls = <<<<2>>, <<1>>>>

\* C19: filter_map(predMap, s) invokes predMap once for every element it
\* pulls from s, in order, and yields in order exactly the truthy ones among
\* what predMap returned: the result, not the element, and nothing for a
\* result that is 0, the empty string or false.
RECURSIVE KeepTruthy(_, _)
KeepTruthy(t, k) ==
  IF k = 0 THEN <<>>
  ELSE KeepTruthy(t, k - 1) \o (IF t[k] \in {Undefined, EmptyString, False} THEN <<>> ELSE <<t[k]>>)

FilterMapKeepsTruthy ==
  (called = "filter_map" /\ result.type = "generator") =>
    /\ Len(calls) = iter1.pos
    /\ \A i \in 1..Len(calls) : calls[i] = <<iter1.items[i]>>
    /\ out = KeepTruthy(cb.table, Len(calls))
    /\ (pc = "done") => (Len(calls) = Len(iter1.items))

FilterMapMappedWitness ==
  /\ called = "filter_map" /\ pc = "done"
  /\ iter1.items = <<1, 2, 1>>
  /\ cb.table = <<False, 1, EmptyString>>
  /\ out = <<1>>

FilterMapZeroWitness ==
  /\ called = "filter_map" /\ pc = "done"
  /\ iter1.items = <<1, 2>>
  /\ cb.table[1] = Undefined /\ cb.table[2] = 2
  /\ out = <<2>>

\* ------------------------------------------------------------ scan, fold
\* scan(fn, start, iter)
Scan ==
  Idle /\ \E t \in ResultTables : \E start \in Results : \E a \in Arguments :
    /\ num' = start
    /\ called' = "scan"
    /\ cb' = Table(t)
    /\ iter1' = a
    /\ IF ensureIterator(a) # "ok"
       THEN result' = Threw(ensureIterator(a)) /\ pc' = pc
       ELSE result' = Generator /\ pc' = "start"
    /\ UNCHANGED <<iter2, count, done, item, state, inner, ensuredIter, out, ended, calls>>
    /\ UNCHANGED <<curryVars, thrown>>

ScanNextYieldsBefore ==
  /\ CanAdvance("scan")
  /\ LET m == mapStep(pc, iter1)
         before == IF pc = "start" THEN num ELSE state
         after == IF m.done THEN before ELSE cb.table[Len(calls) + 1]
     IN  /\ pc' = m.pc
         /\ iter1' = m.it
         /\ state' = IF pc = "done" THEN state ELSE after
         /\ calls' = IF m.done THEN calls ELSE Append(calls, <<before, m.value>>)
         /\ Consume([done |-> m.done, value |-> before])
  /\ UNCHANGED <<called, iter2, cb, num, count, done, item, inner, ensuredIter, result>>
  /\ UNCHANGED <<curryVars, thrown>>

\* one next() of scan's generator: state = start on entry, then
\* state = fn(state, item) and yield state
ScanNext ==
  /\ CanAdvance("scan")
  /\ LET m == mapStep(pc, iter1)
         before == IF pc = "start" THEN num ELSE state
         after == IF m.done THEN before ELSE cb.table[Len(calls) + 1]
     IN  /\ pc' = m.pc
         /\ iter1' = m.it
         /\ state' = IF pc = "done" THEN state ELSE after
         /\ calls' = IF m.done THEN calls ELSE Append(calls, <<before, m.value>>)
         /\ Consume([done |-> m.done, value |-> after])
  /\ UNCHANGED <<called, iter2, cb, num, count, done, item, inner, ensuredIter, result>>
  /\ UNCHANGED <<curryVars, thrown>>

\* fold's for...of: state = fn(state, item) for every item
RECURSIVE foldLoop(_, _, _, _)
foldLoop(c, st, it, log) ==
  LET p == Pull(it)
  IN  IF p.done THEN [value |-> st, it |-> p.it, calls |-> log]
      ELSE foldLoop(c, c.table[Len(log) + 1], p.it, Append(log, <<st, p.value>>))

Value(v) == [type |-> "value", value |-> v]

\* fold(fn, start, iter)
Fold ==
  Idle /\ \E t \in ResultTables : \E start \in Results : \E a \in Arguments :
    /\ called' = "fold"
    /\ cb' = Table(t)
    /\ num' = start
    /\ IF ensureIterator(a) # "ok"
       THEN result' = Threw(ensureIterator(a)) /\ iter1' = a /\ UNCHANGED <<state, calls>>
       ELSE LET r == foldLoop(Table(t), start, a, <<>>)
            IN  /\ result' = Value(r.value)
                /\ state' = r.value
                /\ iter1' = r.it
                /\ calls' = r.calls
    /\ UNCHANGED <<iter2, count, done, item, inner, ensuredIter, pc, out, ended>>
    /\ UNCHANGED <<curryVars, thrown>>

NextScan == Scan \/ ScanNext \/ Fold

SpecScan == Init /\ [][NextScan]_vars

\* C15: over s = x1..xk with seed st0, scan and fold call fn(st_(i-1), x_i) for
\* i = 1..k in order, st_i being what the i-th call returned; scan yields
\* st_1..st_k (k elements, the seed not among them as an element of its own)
\* and fold returns st_k, the last state scan yields, or the seed when k = 0.
StateChain(log, seed, t, items) ==
  \A i \in 1..Len(log) : log[i] = <<IF i = 1 THEN seed ELSE t[i - 1], items[i]>>

ScanFoldStates ==
  /\ (called = "scan" /\ result.type = "generator") =>
       /\ StateChain(calls, num, cb.table, iter1.items)
       /\ Len(out) = Len(calls)
       /\ \A i \in 1..Len(out) : out[i] = cb.table[i]
       /\ (pc = "done") => (Len(out) = Len(iter1.items))
  /\ (called = "fold" /\ result.type = "value") =>
       /\ StateChain(calls, num, cb.table, iter1.items)
       /\ Len(calls) = Len(iter1.items)
       /\ result.value = IF iter1.items = <<>> THEN num
                         ELSE cb.table[Len(iter1.items)]

ScanYieldsStatesWitness ==
  /\ called = "scan" /\ pc = "done"
  /\ num = 0 /\ iter1.items = <<1, 2>>
  /\ cb.table[1] = 1 /\ cb.table[2] = 2
  /\ out = <<1, 2>>
  /\ calls = <<<<0, 1>>, <<1, 2>>>>

FoldLastStateWitness ==
  /\ called = "fold" /\ result.type = "value"
  /\ num = 0 /\ iter1.items = <<1, 2>>
  /\ cb.table[1] = 1 /\ cb.table[2] = 2
  /\ result.value = 2

\* ------------------------------------------------- find, find_map, nth
\* find's for...of (mapped = FALSE: return item when pred(item)) and
\* find_map's (mapped = TRUE: return result when result); falling out of the
\* loop returns undefined
RECURSIVE findLoop(_, _, _, _)
findLoop(mapped, c, it, log) ==
  LET p == Pull(it)
  IN  IF p.done THEN [value |-> Undefined, it |-> p.it, calls |-> log]
      ELSE LET res == c.table[Len(log) + 1]
               log2 == Append(log, <<p.value>>)
               passed == IF mapped THEN Truthy(res) ELSE res
           IN  IF passed
               THEN [value |-> IF mapped THEN res ELSE p.value, it |-> Close(p.it),
                     calls |-> log2]
               ELSE findLoop(mapped, c, p.it, log2)

findCall(name, c, a) ==
  /\ called' = name
  /\ cb' = c
  /\ IF ensureIterator(a) # "ok"
     THEN result' = Threw(ensureIterator(a)) /\ iter1' = a /\ calls' = calls
     ELSE LET r == findLoop(name = "find_map", c, a, <<>>)
          IN  result' = Value(r.value) /\ iter1' = r.it /\ calls' = r.calls
  /\ UNCHANGED <<iter2, num, count, done, item, state, inner, ensuredIter, pc, out, ended>>
  /\ UNCHANGED <<curryVars, thrown>>

\* find(pred, iter)
Find == Idle /\ \E t \in Tables : \E a \in Arguments : findCall("find", Table(t), a)

\* find_map(predMap, iter)
FindMap == Idle /\ \E t \in ResultTables : \E a \in Arguments : findCall("find_map", Table(t), a)

RECURSIVE nthLoopCountsFirst(_, _, _)
nthLoopCountsFirst(index, i, it) ==
  LET p == Pull(it)
  IN  IF p.done THEN [value |-> Undefined, it |-> p.it, count |-> i]
      ELSE IF i + 1 = index THEN [value |-> p.value, it |-> Close(p.it), count |-> i + 1]
      ELSE nthLoopCountsFirst(index, i + 1, p.it)

\* nth's for...of: i counts the items passed over
RECURSIVE nthLoop(_, _, _)
nthLoop(index, i, it) ==
  LET p == Pull(it)
  IN  IF p.done THEN [value |-> Undefined, it |-> p.it, count |-> i]
      ELSE IF i = index THEN [value |-> p.value, it |-> Close(p.it), count |-> i]
      ELSE nthLoop(index, i + 1, p.it)

\* nth(index, iter)
Nth ==
  Idle /\ \E index \in 0..MaxNum : \E a \in Arguments :
    /\ called' = "nth"
    /\ num' = index
    /\ IF ensureIterator(a) # "ok"
       THEN result' = Threw(ensureIterator(a)) /\ iter1' = a /\ count' = count
       ELSE LET r == nthLoop(index, 0, a)
            IN  result' = Value(r.value) /\ iter1' = r.it /\ count' = r.count
    /\ UNCHANGED <<iter2, cb, done, item, state, inner, ensuredIter, pc, out, ended, calls>>
    /\ UNCHANGED <<curryVars, thrown>>

NextFind == Find \/ FindMap \/ Nth

SpecFind == Init /\ [][NextFind]_vars

\* C12: nth(i, s) with 0 <= i < length(s) returns s[i], having pulled exactly
\* i + 1 elements of s; with length(s) <= i it returns undefined.
NthReturnsIndexed ==
  (called = "nth" /\ result.type = "value") =>
    LET s == iter1.items
    IN  IF num < Len(s)
        THEN result.value = s[num + 1] /\ iter1.pos = num + 1
        ELSE result.value = Undefined

NthInsideWitness ==
  /\ called = "nth" /\ result.type = "value"
  /\ num = 1 /\ iter1.items = <<1, 2, 1>>
  /\ result.value = 2 /\ iter1.pos = 2

NthOutsideWitness ==
  /\ called = "nth" /\ result.type = "value"
  /\ num = 2 /\ iter1.items = <<1, 2>>
  /\ result.value = Undefined

\* ------------------------------------------------------------------ chain
chainStepSecondFirst(gpc, i1, i2) ==
  IF gpc = "done"
  THEN [done |-> TRUE, value |-> Undefined, pc |-> "done", iter1 |-> i1, iter2 |-> i2]
  ELSE LET p2 == IF gpc = "second" THEN [done |-> TRUE, value |-> Undefined, it |-> i2]
                 ELSE Pull(i2)
       IN  IF ~p2.done
           THEN [done |-> FALSE, value |-> p2.value, pc |-> "first",
                 iter1 |-> i1, iter2 |-> p2.it]
           ELSE LET p1 == Pull(i1)
                IN  IF ~p1.done
                    THEN [done |-> FALSE, value |-> p1.value, pc |-> "second",
                          iter1 |-> p1.it, iter2 |-> p2.it]
                    ELSE [done |-> TRUE, value |-> Undefined, pc |-> "done",
                          iter1 |-> p1.it, iter2 |-> p2.it]

\* one next() of chain's generator: yield* iter1, then yield* iter2
chainStep(gpc, i1, i2) ==
  IF gpc = "done"
  THEN [done |-> TRUE, value |-> Undefined, pc |-> "done", iter1 |-> i1, iter2 |-> i2]
  ELSE LET p1 == IF gpc = "second" THEN [done |-> TRUE, value |-> Undefined, it |-> i1]
                 ELSE Pull(i1)
       IN  IF ~p1.done
           THEN [done |-> FALSE, value |-> p1.value, pc |-> "first",
                 iter1 |-> p1.it, iter2 |-> i2]
           ELSE LET p2 == Pull(i2)
                IN  IF ~p2.done
                    THEN [done |-> FALSE, value |-> p2.value, pc |-> "second",
                          iter1 |-> p1.it, iter2 |-> p2.it]
                    ELSE [done |-> TRUE, value |-> Undefined, pc |-> "done",
                          iter1 |-> p1.it, iter2 |-> p2.it]

\* chain(iter1, iter2)
Chain ==
  Idle /\ \E a, b \in Arguments :
    /\ called' = "chain"
    /\ iter1' = a
    /\ iter2' = b
    /\ IF ensureIterator(a) # "ok"
       THEN result' = Threw(ensureIterator(a)) /\ pc' = pc
       ELSE IF ensureIterator(b) # "ok"
       THEN result' = Threw(ensureIterator(b)) /\ pc' = pc
       ELSE result' = Generator /\ pc' = "start"
    /\ UNCHANGED <<cb, num, count, done, item, state, inner, ensuredIter, out, ended, calls>>
    /\ UNCHANGED <<curryVars, thrown>>

ChainNext ==
  /\ CanAdvance("chain")
  /\ LET r == chainStep(pc, iter1, iter2)
     IN  /\ pc' = r.pc
         /\ iter1' = r.iter1
         /\ iter2' = r.iter2
         /\ Consume(r)
  /\ UNCHANGED <<called, cb, num, count, done, item, state, inner, ensuredIter, calls, result>>
  /\ UNCHANGED <<curryVars, thrown>>

NextChain == Chain \/ ChainNext

SpecChain == Init /\ [][NextChain]_vars

\* C17: chain(seq1, seq2) yields every element of seq1 in order and then
\* every element of seq2 in order, and pulls nothing from seq2 until seq1 has
\* answered that it is exhausted.
ChainInOrder ==
  (called = "chain" /\ result.type = "generator") =>
    LET expected == iter1.items \o iter2.items
    IN  /\ IsPrefix(out, expected)
        /\ (pc = "done") => (out = expected)
        /\ (iter2.pos > 0) =>
              /\ pc \in {"second", "done"}
              /\ iter1.pos = Len(iter1.items)
              /\ Len(out) = Len(iter1.items) + iter2.pos

ChainBothWitness ==
  /\ called = "chain" /\ pc = "done"
  /\ iter1.items = <<1, 2>> /\ iter2.items = <<2, 1, 1>>
  /\ out = <<1, 2, 2, 1, 1>>

\* --------------------------------------------------------- flatMap, flatten
MaxInner == 2      \* longest sequence a flatMap callback returns

\* a value that is not iterable, where iterables may stand too
Scalar(v) == [kind |-> "number", items |-> <<v>>, pos |-> 0, closed |-> FALSE]

\* the functions given to flatMap, by what they return
FlatFunctions == {"pair", "successor", "nothing", "evenPair", "nested"}

flatApply(name, v) ==
  CASE name = "pair" -> Iterable(<<v, v>>)
    [] name = "successor" -> Scalar(v + 1)
    [] name = "nothing" -> Iterable(<<>>)
    [] name = "evenPair" -> IF v % 2 = 0 THEN Iterable(<<v, v>>) ELSE Scalar(v)
    [] name = "nested" -> Iterable(<<Iterable(<<v>>)>>)
    [] OTHER -> v

RECURSIVE flatMapStepFirstOnly(_, _, _, _, _)
flatMapStepFirstOnly(fn, log, gpc, it, inn) ==
  IF gpc = "done"
  THEN [done |-> TRUE, value |-> Undefined, pc |-> "done", it |-> it, inner |-> inn,
        calls |-> log]
  ELSE LET p == Pull(it)
       IN  IF p.done
           THEN [done |-> TRUE, value |-> Undefined, pc |-> "done",
                 it |-> p.it, inner |-> inn, calls |-> log]
           ELSE LET res == flatApply(fn, p.value)
                    log2 == IF fn = "identity" THEN log
                            ELSE Append(log, <<p.value>>)
                IN  IF isIterator(res) = "true" /\ Pull(res).done
                    THEN flatMapStepFirstOnly(fn, log2, "yield", p.it, res)
                    ELSE [done |-> FALSE, value |-> res.items[1],
                          pc |-> "yield", it |-> p.it, inner |-> inn,
                          calls |-> log2]

\* one next() of flatMap's generator: inn is the iterable its yield* is in
RECURSIVE flatMapStep(_, _, _, _, _)
flatMapStep(fn, log, gpc, it, inn) ==
  IF gpc = "done"
  THEN [done |-> TRUE, value |-> Undefined, pc |-> "done", it |-> it, inner |-> inn,
        calls |-> log]
  ELSE LET q == IF gpc = "yield*" THEN Pull(inn)
                ELSE [done |-> TRUE, value |-> Undefined, it |-> inn]
       IN  IF ~q.done
           THEN [done |-> FALSE, value |-> q.value, pc |-> "yield*", it |-> it,
                 inner |-> q.it, calls |-> log]
           ELSE LET p == Pull(it)
                IN  IF p.done
                    THEN [done |-> TRUE, value |-> Undefined, pc |-> "done",
                          it |-> p.it, inner |-> q.it, calls |-> log]
                    ELSE LET res == flatApply(fn, p.value)
                             log2 == IF fn = "identity" THEN log
                                     ELSE Append(log, <<p.value>>)
                         IN  IF isIterator(res) = "true"
                             THEN flatMapStep(fn, log2, "yield*", p.it, res)
                             ELSE [done |-> FALSE, value |-> res.items[1],
                                   pc |-> "yield", it |-> p.it, inner |-> q.it,
                                   calls |-> log2]

\* flatMap(fn, iter)
FlatMap ==
  Idle /\ \E fn \in FlatFunctions : \E a \in Arguments :
    lazyCall("flatMap", [name |-> fn, table |-> <<>>], a)

\* what an iterable given to flatten holds: iterables and other values
FlatItems == {Scalar(v) : v \in Val} \cup {Iterable(s) : s \in SeqsUpTo(Val, MaxInner)}

NestedArguments ==
  {Iterable(s) : s \in SeqsUpTo(FlatItems, MaxInner)}
    \cup {NonIterable(k) : k \in NonIterableKinds}

\* flatten(iter) is flatMap(value => value) completed with its sequence
Flatten ==
  Idle /\ \E a \in NestedArguments :
    lazyCall("flatten", [name |-> "identity", table |-> <<>>], a)

FlatMapNext ==
  /\ CanAdvance("flatMap") \/ CanAdvance("flatten")
  /\ LET r == flatMapStep(cb.name, calls, pc, iter1, inner)
     IN  /\ pc' = r.pc
         /\ iter1' = r.it
         /\ inner' = r.inner
         /\ calls' = r.calls
         /\ Consume(r)
  /\ UNCHANGED <<called, iter2, cb, num, count, done, item, state, ensuredIter, result>>
  /\ UNCHANGED <<curryVars, thrown>>

NextFlat == FlatMap \/ Flatten \/ FlatMapNext

SpecFlat == Init /\ [][NextFlat]_vars

\* C13: flatMap(fn, s) yields, for every element x of s in order, all the
\* elements of fn(x) in order when fn(x) is sequence-like and fn(x) itself
\* otherwise; one level only is flattened, so a sequence that is an element of
\* fn(x) is yielded as one element.  flatten(s) is the case fn(x) = x.
Expand(r) == IF r.kind = "iterable" THEN r.items ELSE <<r.items[1]>>

RECURSIVE FlatExpected(_, _)
FlatExpected(fn, s) ==
  IF s = <<>> THEN <<>> ELSE Expand(flatApply(fn, Head(s))) \o FlatExpected(fn, Tail(s))

FlatMapOneLevel ==
  (called \in {"flatMap", "flatten"} /\ result.type = "generator") =>
    LET expected == FlatExpected(cb.name, iter1.items)
    IN  /\ IsPrefix(out, expected)
        /\ (pc = "done") => (out = expected)

FlatMapMixedWitness ==
  /\ called = "flatMap" /\ cb.name = "evenPair" /\ pc = "done"
  /\ iter1.items = <<1, 2>>
  /\ out = <<1, 2, 2>>

FlatMapNestedWitness ==
  /\ called = "flatMap" /\ cb.name = "nested" /\ pc = "done"
  /\ iter1.items = <<1, 2>>
  /\ out = <<Iterable(<<1>>), Iterable(<<2>>)>>

\* ------------------------------------------------------------ isIterator
\* isIterator(possible), called by a user of the library
CallIsIterator ==
  Idle /\ \E v \in Arguments :
    /\ called' = "isIterator"
    /\ iter1' = v
    /\ result' = IF isIterator(v) = "throws" THEN Threw("Error")
                 ELSE Boolean(isIterator(v) = "true")
    /\ UNCHANGED <<iter2, cb, num, count, done, item, state, inner, ensuredIter, pc, out,
                   ended, calls>>
    /\ UNCHANGED <<curryVars, thrown>>

\* ------------------------------------------------- a callback that throws
\* the lazy combinators that call a function of the caller's
WithCallback ==
  {"map", "filter", "filter_map", "flatMap", "tap", "scan", "takeWhile", "skipWhile"}

\* the callback's log after the next advance, when every call in it returns
advanceCalls ==
  CASE called \in {"map", "tap"} ->
         LET m == mapStep(pc, iter1)
         IN  IF m.done THEN calls ELSE Append(calls, <<m.value>>)
    [] called = "scan" ->
         LET m == mapStep(pc, iter1)
         IN  IF m.done THEN calls
             ELSE Append(calls, <<IF pc = "start" THEN num ELSE state, m.value>>)
    [] called \in {"filter", "filter_map"} ->
         filterStep(called = "filter_map", cb, calls, pc, iter1).calls
    [] called = "takeWhile" -> takeWhileStep(cb, count, num, calls, pc, iter1).calls
    [] called = "skipWhile" -> skipWhileStep(cb, count, num, calls, done, pc, iter1).calls
    [] called = "flatMap" -> flatMapStep(cb.name, calls, pc, iter1, inner).calls
    [] OTHER -> calls

CallbackThrowsResumable ==
  /\ called \in WithCallback
  /\ pc \notin {"none", "done"}
  /\ thrown = "none"
  /\ \E j \in (Len(calls) + 1)..Len(advanceCalls) :
       /\ calls' = SubSeq(advanceCalls, 1, j)
       /\ iter1' = [iter1 EXCEPT !.pos = @ + (j - Len(calls))]
  /\ thrown' = "CallbackError"
  /\ UNCHANGED <<called, iter2, cb, num, count, done, item, state, inner, ensuredIter, pc, out,
                 ended, result>>
  /\ UNCHANGED curryVars

\* one next() of a generator in which a call of the callback throws: the calls
\* the advance makes before it return what they would, each after one item
\* was pulled; the throw leaves the for...of (closing its iterator) and the
\* generator body, so the generator is finished and next() throws the error
CallbackThrows ==
  /\ called \in WithCallback
  /\ pc \notin {"none", "done"}
  /\ thrown = "none"
  /\ \E j \in (Len(calls) + 1)..Len(advanceCalls) :
       /\ calls' = SubSeq(advanceCalls, 1, j)
       /\ iter1' = Close([iter1 EXCEPT !.pos = @ + (j - Len(calls))])
  /\ pc' = "done"
  /\ thrown' = "CallbackError"
  /\ UNCHANGED <<called, iter2, cb, num, count, done, item, state, inner, ensuredIter, out,
                 ended, result>>
  /\ UNCHANGED curryVars

\* the generators that call a callback, when a call of it may throw
NextThrow == NextMap \/ NextScan \/ NextTake \/ NextSkip \/ NextFlat \/ CallbackThrows

SpecThrow == Init /\ [][NextThrow]_vars

\* ------------------------------------------------------------ the library
\* every operation of the library, its callbacks returning
Next ==
  \/ NextZip \/ NextEq \/ NextTake \/ NextCycle \/ NextSkip \/ NextAllSome
  \/ NextCurry \/ NextMap \/ NextScan \/ NextFind \/ NextChain \/ NextFlat
  \/ NextPartial \/ CallIsIterator

Spec == Init /\ [][Next]_vars

\* C5: every combinator that takes a sequence, fully applied with a value that
\* is not a sequence in a sequence position (its other sequence argument, if
\* any, a sequence or not one either), throws NotIterator at the call itself:
\* no generator is returned, no element has been pulled from either argument
\* and the callback has not been invoked; and NotIterator is thrown in no
\* other case, so never during the traversal of a returned generator.
TwoSequences == {"chain", "zip", "eq_by", "eq"}

OneSequence ==
  {"map", "filter", "filter_map", "flatMap", "flatten", "tap", "enumerate", "scan",
   "collect", "count", "fold", "find", "find_map", "all", "some", "nth", "take",
   "takeWhile", "skip", "skipWhile", "cycle"}

SequenceArguments ==
  IF called \in TwoSequences THEN {iter1, iter2} ELSE {iter1}

GuardRejectsAtCall ==
  (called \in OneSequence \cup TwoSequences
     /\ \A v \in SequenceArguments : isIterator(v) \in {"true", "false"}) =>
    LET rejected == result.type = "threw" /\ result.value = "NotIterator"
    IN  /\ (\E v \in SequenceArguments : isIterator(v) = "false") <=> rejected
        /\ rejected =>
             /\ pc = "none"
             /\ iter1.pos = 0 /\ iter2.pos = 0
             /\ calls = <<>>
             /\ out = <<>> /\ ended = 0

GuardSecondArgumentWitness ==
  /\ called = "zip"
  /\ isIterator(iter1) = "true" /\ Len(iter1.items) = 2
  /\ iter2.kind = "number"
  /\ result.type = "threw" /\ result.value = "NotIterator"

\* C14: a call of map, filter, filter_map, flatMap (flatten), tap, enumerate,
\* scan, chain, zip, take, takeWhile, skip or skipWhile with valid arguments
\* returns having pulled nothing and invoked no callback: until the returned
\* generator is advanced no element has left either input and the callback's
\* log is empty (so also for each completion of a partial take or skip).  Only
\* cycle has pulled at construction: all of its input.
Lazy ==
  {"map", "filter", "filter_map", "flatMap", "flatten", "tap", "enumerate", "scan", "chain",
   "zip", "take", "takeWhile", "skip", "skipWhile"}

NotAdvanced == out = <<>> /\ ended = 0 /\ thrown = "none"

ConstructionPullsNothing ==
  /\ (called \in Lazy /\ result.type = "generator" /\ NotAdvanced) =>
       /\ iter1.pos = 0 /\ iter2.pos = 0
       /\ ~iter1.closed /\ ~iter2.closed
       /\ calls = <<>>
  /\ (called = "partial") =>
       \A i \in 1..Len(made) : (made[i].pc = "start") => (made[i].iter.pos = 0)
  /\ (called = "cycle" /\ result.type = "generator") =>
       iter1.pos = Len(iter1.items)

LazyZipConstructedWitness ==
  /\ called = "zip" /\ result.type = "generator" /\ NotAdvanced
  /\ iter1.items = <<1, 2>> /\ iter2.items = <<2, 1>>
  /\ iter1.pos = 0 /\ iter2.pos = 0

CycleConstructedWitness ==
  /\ called = "cycle" /\ result.type = "generator" /\ NotAdvanced
  /\ iter1.items = <<1, 2>> /\ iter1.pos = 2

\* C20: isIterator never throws: for every input, an object on which the `in`
\* query fails with some other error included, it returns a boolean, and
\* false for every primitive.
IsIteratorNeverThrows ==
  (called = "isIterator") =>
    /\ result.type = "boolean"
    /\ (iter1.kind \in Primitives) => ~result.value

\* C20, amended: isIterator returns false for every primitive and every plain
\* object and true for every sequence-like object, without throwing; when the
\* `in` query fails with some other error, isIterator throws.
IsIteratorAnswersOrRethrows ==
  (called = "isIterator") =>
    CASE iter1.kind \in Primitives \cup {"object"} ->
           result.type = "boolean" /\ ~result.value
      [] iter1.kind = "iterable" -> result.type = "boolean" /\ result.value
      [] OTHER -> result.type = "threw"

IsIteratorPrimitiveWitness ==
  /\ called = "isIterator" /\ iter1.kind = "string"
  /\ result.type = "boolean" /\ ~result.value

IsIteratorRethrowsWitness ==
  /\ called = "isIterator" /\ iter1.kind = "trap"
  /\ result.type = "threw"

\* C21: the error the guard throws for a non-sequence argument carries the
\* code 1 and the message "Value is not a sequence", whichever combinator
\* threw it.
GuardErrorIsNotASequence ==
  (result.type = "threw" /\ result.value = "NotIterator") =>
    result.code = 1 /\ result.message = "Value is not a sequence"

\* C21, amended: the error the guard throws for a non-sequence argument
\* carries the code 1 and the message "Value is not an iterator", whichever
\* combinator threw it.
GuardErrorIsNotIterator ==
  (result.type = "threw" /\ result.value = "NotIterator") =>
    result.code = 1 /\ result.message = "Value is not an iterator"

GuardErrorWitness ==
  /\ called = "chain" /\ iter1.kind = "iterable" /\ iter2.kind = "number"
  /\ result.type = "threw" /\ result.value = "NotIterator"
  /\ result.code = 1

\* C22: the generator a lazy combinator returns is single-pass: once one of
\* its advances has reported done, every later advance reports done too,
\* yields nothing, pulls nothing from either input and calls no callback; so
\* takeWhile, stopped by a falsy answer, does not resume when pred would
\* answer truthy for a later element.
ExhaustedStaysExhausted ==
  [][(called \in Lazy \cup {"cycle"} /\ ended > 0) =>
       /\ out' = out
       /\ ended' >= ended
       /\ iter1'.pos = iter1.pos /\ iter2'.pos = iter2.pos
       /\ inner'.pos = inner.pos
       /\ calls' = calls]_vars

TakeWhileStoppedWitness ==
  /\ called = "takeWhile" /\ ended = 2
  /\ iter1.items = <<1, 2, 1>>
  /\ cb.table[1] /\ ~cb.table[2] /\ cb.table[3]
  /\ out = <<1>>
  /\ iter1.pos = 2

\* C23: eq_by invokes pred only on pairs of elements that both exist: it is
\* invoked at most min(length(seq1), length(seq2)) times, the i-th time on
\* (seq1[i], seq2[i]), and not at all for an element of seq1 that finds seq2
\* exhausted.
EqByPredOnExistingPairs ==
  (called \in {"eq_by", "eq"} /\ result.type = "boolean") =>
    /\ Len(calls) <= Min(Len(iter1.items), Len(iter2.items))
    /\ \A i \in 1..Len(calls) : calls[i] = <<iter1.items[i], iter2.items[i]>>

EqByUndefinedPairWitness ==
  /\ called = "eq_by" /\ result.type = "boolean" /\ ~result.value
  /\ iter1.items = <<1>> /\ iter2.items = <<>>
  /\ calls = <<<<1, Undefined>>>>

\* C24: when a callback throws during an advance of the generator of map,
\* filter, filter_map, flatMap, tap, scan, takeWhile or skipWhile, that
\* advance throws the callback's error and yields nothing, the throwing call
\* being the last one made, on the last item pulled; from then on every
\* advance reports done, pulls nothing and does not call the callback.
CallbackFailureHalts ==
  [][/\ (thrown = "none" /\ thrown' # "none") =>
          /\ thrown' = "CallbackError"
          /\ out' = out /\ ended' = ended
          /\ Len(calls') > Len(calls)
          /\ iter1'.pos = Len(calls')
          /\ calls'[Len(calls')][Len(calls'[Len(calls')])] = iter1.items[iter1'.pos]
     /\ (thrown # "none") =>
          /\ thrown' = thrown
          /\ out' = out /\ ended' >= ended
          /\ calls' = calls
          /\ iter1'.pos = iter1.pos]_vars

CallbackThrewMidwayWitness ==
  /\ called = "filter_map" /\ thrown = "CallbackError"
  /\ iter1.items = <<1, 2, 1>>
  /\ cb.table[1] = 2 /\ cb.table[2] = False
  /\ out = <<2>>
  /\ Len(calls) = 3
  /\ ended = 2

====
